---- MODULE Spec2Model ----
(***************************************************************************)
(* react-redux-subapp: the state-composition engine of src/src/index.js    *)
(* and src/src/enhancer.js.                                                *)
(*                                                                         *)
(* JavaScript strings are sequences of text tokens.  A token is a piece of *)
(* text that the code never looks into ("a", "INCREMENT"), or one of the   *)
(* two delimiters the code does look for: "." (String.split in mapState    *)
(* and refined) and "/" (the namespace delimiter of redux-subspace).  No   *)
(* token is a prefix of another, so "is a prefix of" on token sequences is *)
(* "is a prefix of" on the strings they spell.                             *)
(*                                                                         *)
(* JavaScript objects live in a heap (a sequence of objects, an object's   *)
(* reference is its index), because refined() both copies and assigns in   *)
(* place and the difference is only visible through references.            *)
(***************************************************************************)
EXTENDS Integers, Sequences, FiniteSets, TLC

VARIABLES
    heap,                    \* the JavaScript heap: Seq of objects
    state,                   \* the redux store's current state (a value)
    transientReducers,       \* redux-transient's added reducers, in order
    mapping,                 \* index.js:102  key -> {wrapped, subApp}
    sagaRunForSubAppKeyMap,  \* index.js:21   keys marked as saga-run
    sagaMiddleware,          \* enhancer.js:10  options.sagaMiddleware (or "undefined")
    sagaRuns,                \* sagas handed to sagaMiddleware.run, per key
    runSagaCalls,            \* calls of store.runSaga, per key
    instances,               \* per key, the mounted instances of its SubApp
    appCalls,                \* the factory calls the parent application's code makes
    last                     \* what the most recent call did / returned

vars == <<heap, state, transientReducers, mapping, sagaRunForSubAppKeyMap,
          sagaMiddleware, sagaRuns, runSagaCalls, instances, appCalls, last>>

----------------------------------------------------------------------------
(* Bounds *)

MaxValue == 1        \* a counter is not incremented beyond this
MaxInstances == 2    \* at most this many SubApp instances are mounted at a time

----------------------------------------------------------------------------
(* Strings *)

DOT == "."
SLASH == "/"

\* index.js:15
ACTION_INITIALIZE_REDUCER_TYPE == <<"@react-redux-subapp", SLASH, "INIT">>

\* redux-transient's action type carried by addReducer(reducer), index.js:48
ADD_REDUCER == <<"@@transient", SLASH, "ADD_REDUCER">>

INCREMENT == <<"INCREMENT">>

RECURSIVE indexOfDot(_, _)
\* position of the first "." at or after i, 0 when there is none
indexOfDot(s, i) ==
    IF i > Len(s) THEN 0
    ELSE IF s[i] = DOT THEN i
    ELSE indexOfDot(s, i + 1)

RECURSIVE split(_)
\* String.prototype.split('.'): "" gives [""], "a." gives ["a", ""]
split(s) ==
    LET i == indexOfDot(s, 1)
    IN  IF i = 0 THEN <<s>>
        ELSE <<SubSeq(s, 1, i - 1)>> \o split(SubSeq(s, i + 1, Len(s)))

\* type.indexOf(prefix) === 0
startsWith(s, prefix) ==
    /\ Len(prefix) <= Len(s)
    /\ SubSeq(s, 1, Len(prefix)) = prefix

----------------------------------------------------------------------------
(* Values and the heap *)

Undef == [t |-> "undef", v |-> 0]
Num(n) == [t |-> "num", v |-> n]
Ref(i) == [t |-> "ref", v |-> i]
NaN == [t |-> "NaN", v |-> 0]
Null == [t |-> "null", v |-> 0]

\* what reading a property leaves in place of a value when it throws the
\* TypeError of a property read on null
TypeError == [t |-> "TypeError", v |-> 0]

isRef(x) == x.t = "ref"

VALUE == <<"value">>

\* names every object and number inherits from its prototype
ObjectPrototypeNames == {<<"constructor">>, <<"toString">>}

\* the value of an inherited property: a function of the prototype
Inherited == [t |-> "function", v |-> 0]

\* obj[p] for a value x that is not undefined: on null it throws, and so
\* does whatever goes on from a read that threw; otherwise an own property,
\* else an inherited one, else undefined
getProp(h, x, p) ==
    IF x \in {Null, TypeError} THEN TypeError
    ELSE IF isRef(x) /\ p \in DOMAIN h[x.v] THEN h[x.v][p]
    ELSE IF x # Undef /\ p \in ObjectPrototypeNames THEN Inherited
    ELSE Undef

\* obj[p] = y, in place
setProp(h, i, p, y) ==
    [h EXCEPT ![i] = [q \in DOMAIN h[i] \cup {p} |-> IF q = p THEN y ELSE h[i][q]]]

EmptyObject == [q \in {} |-> Undef]

\* { ...x }: a new object with x's own properties ({} when x is no object)
spread(h, x) == IF isRef(x) THEN h[x.v] ELSE EmptyObject

----------------------------------------------------------------------------
(* The sub-applications the parent application is built from *)

\* Heap index of the initialState object { value: 0 } (README.md:37-41); it
\* is allocated once, when the sub-application's module is loaded, and every
\* factory built from it holds this one reference
InitialStateObject == Ref(1)

\* createAppFactory(WrappedComponent, reducer, initialState, options) as the
\* parent application calls it (index.js:104, README.md:101, README.md:280)
Factories ==
    [ counterApp |-> [ wrapped |-> "Counter", reducer |-> "counter",
                       initialState |-> InitialStateObject, saga |-> TRUE ],
      otherApp   |-> [ wrapped |-> "Other", reducer |-> "counterDefault",
                       initialState |-> Undef, saga |-> TRUE ],
      counterApp2 |-> [ wrapped |-> "Counter", reducer |-> "counterDefault",
                       initialState |-> Undef, saga |-> FALSE ] ]

FactoryIds == DOMAIN Factories

\* The key strings the parent application passes to a factory
KeyA == <<"a">>
KeyAB == <<"a", DOT, "b">>
KeyCA == <<"c", DOT, "a">>
KeyCB == <<"c", DOT, "b">>
KeySlash == <<"a", SLASH, "b">>
KeyEmpty == <<>>
KeyDotA == <<DOT, "a">>
KeyConstructor == <<"constructor">>

Keys == {KeyA, KeyAB, KeyCA, KeyCB, KeySlash, KeyEmpty, KeyDotA, KeyConstructor}

\* a path under the slice of the key "a/b"
PathSlashB == KeySlash \o <<DOT, "b">>

\* the paths read
Paths == Keys \cup {PathSlashB}

\* The parent applications: each is the set of calls appFactory(subAppKey)
\* that its code makes
ParentApps ==
    { ({"counterApp"} \X {KeyA, KeySlash}) \cup ({"otherApp", "counterApp2"} \X {KeyA}),
      ({"counterApp"} \X {KeyCA, KeyCB}) \cup ({"otherApp"} \X {KeyCB}),
      {"counterApp"} \X {KeyEmpty, KeyDotA},
      {"counterApp"} \X {KeyA, KeyAB},
      {"counterApp"} \X {KeyA, KeyConstructor} }

\* Action types a sub-application's component dispatches
ComponentTypes == {INCREMENT, <<"b", SLASH, "INCREMENT">>, <<"NOOP">>}

----------------------------------------------------------------------------
(* Reducers.  A reducer call takes and returns a computation               *)
(*   [h: the heap, calls: the slice reducer calls made so far,             *)
(*    err: an exception was thrown, val: the value returned].              *)

Returning(cx, x) == [cx EXCEPT !.val = x]
Throwing(cx) == [cx EXCEPT !.err = TRUE]

\* x + 1: a number's successor, NaN for undefined and NaN
plusOne(x) == IF x.t = "num" THEN Num(x.v + 1) ELSE NaN

\* return { ...st, value: st.value + 1 } (README.md:48-53); reading
\* st.value of undefined throws
incremented(cx, st) ==
    IF st = Undef THEN Throwing(cx)
    ELSE LET old == spread(cx.h, st)
             new == [q \in DOMAIN old \cup {VALUE} |->
                        IF q = VALUE THEN plusOne(getProp(cx.h, st, VALUE))
                        ELSE old[q]]
         IN  [cx EXCEPT !.h = Append(cx.h, new), !.val = Ref(Len(cx.h) + 1)]

\* README.md:46-58: function reducer(state, action)
counterReducer(cx, st, action) ==
    IF action.type = INCREMENT THEN incremented(cx, st) ELSE Returning(cx, st)

\* the same reducer declared with a default argument, as README.md:159 asks
\* of a sub-application that gives no initialState:
\* function reducer(state = { value: 0 }, action)
counterDefaultReducer(cx, st, action) ==
    counterReducer(
        IF st = Undef THEN [cx EXCEPT !.h = Append(@, [q \in {VALUE} |-> Num(0)])]
        ELSE cx,
        IF st = Undef THEN Ref(Len(cx.h) + 1) ELSE st,
        action)

\* the reducer given to createAppFactory (index.js:104), by its kind
ownReducer(kind, cx, st, action) ==
    IF kind = "counter" THEN counterReducer(cx, st, action)
    ELSE counterDefaultReducer(cx, st, action)

\* the computation r of a call reducer(st, action) for subAppKey, with the
\* call and what it returned logged
logged(subAppKey, st, action, r) ==
    [r EXCEPT !.calls =
        Append(@, [key |-> subAppKey, type |-> action.type, state |-> st,
                   returned |-> r.val])]

\* a call of the sub-application's own reducer, reducer(st, action)
sliceReducer(subAppKey, kind, cx, st, action) ==
    logged(subAppKey, st, action, ownReducer(kind, cx, st, action))

\* redux-subspace's hasNamespace: action.type.indexOf(`${namespace}/`) === 0
hasNamespace(action, namespace) ==
    startsWith(action.type, namespace \o <<SLASH>>)

\* processAction passing every action on as it is
passedOnAlways(st, namespace) == TRUE

\* redux-subspace's processAction: whether the action is passed on as it is
\* (an empty namespace; every action of the model has a type and none is
\* marked globalAction)
passedOn(st, namespace) == st = Undef \/ namespace = <<>>

\* namespaced cutting the namespace but not the delimiter after it
namespacedKeepingDelimiter(subAppKey, kind, cx, st, action) ==
    IF passedOn(st, subAppKey) \/ hasNamespace(action, subAppKey)
    THEN sliceReducer(subAppKey, kind, cx, st,
             IF passedOn(st, subAppKey) THEN action
             ELSE [action EXCEPT !.type =
                      SubSeq(action.type, Len(subAppKey) + 1, Len(action.type))])
    ELSE Returning(cx, st)

\* redux-subspace's namespaced(subAppKey)(reducer), index.js:111: an
\* undefined state goes to the reducer with the action as it is; otherwise
\* an action of the namespace goes to it with the namespace and the
\* delimiter cut off, and any other action leaves the state as it is
namespaced(subAppKey, kind, cx, st, action) ==
    IF passedOn(st, subAppKey) \/ hasNamespace(action, subAppKey)
    THEN sliceReducer(subAppKey, kind, cx, st,
             IF passedOn(st, subAppKey) THEN action
             ELSE [action EXCEPT !.type =
                      SubSeq(action.type, Len(subAppKey) + 2, Len(action.type))])
    ELSE Returning(cx, st)

RECURSIVE walk(_, _, _)
\* index.js:26-30: keys.forEach over the running subState; a read that
\* throws ends the loop and the call
walk(h, subState, keys) ==
    IF keys = <<>> THEN subState
    ELSE walk(h,
              IF subState # Undef THEN getProp(h, subState, Head(keys)) ELSE subState,
              Tail(keys))

\* subAppKey.split('.') (index.js:25, index.js:85) of every path of the model
keysOf == [subAppKey \in Paths |-> split(subAppKey)]

\* index.js:23-32
mapState(subAppKey, h, st) == walk(h, st, keysOf[subAppKey])

RECURSIVE descend(_, _, _)
\* index.js:91-96: walk to the parent of the slice, creating {} where an
\* ancestor is undefined.  parentState[key] = {} assigns in place; on a
\* parentState that is no object the assignment throws (the module is strict)
descend(h, parentState, keys) ==
    IF keys = <<>> THEN [h |-> h, parentState |-> parentState, err |-> FALSE]
    ELSE LET key == Head(keys)
         IN  IF getProp(h, parentState, key) = Undef
             THEN IF isRef(parentState)
                  THEN LET h1 == Append(h, EmptyObject)
                       IN  descend(setProp(h1, parentState.v, key, Ref(Len(h1))),
                                   Ref(Len(h1)), Tail(keys))
                  ELSE [h |-> h, parentState |-> parentState, err |-> TRUE]
             ELSE descend(h, getProp(h, parentState, key), Tail(keys))

\* index.js:98-99: parentState[keys[0]] = the value the computation r of the
\* reducer returned; return resultState
assigned(keys, resultState, parentState, r) ==
    IF r.err THEN r
    ELSE IF ~isRef(parentState) THEN Throwing(r)
    ELSE [r EXCEPT !.h = setProp(r.h, parentState.v, keys[Len(keys)], r.val),
                   !.val = resultState]

\* index.js:98 after the loop of index.js:91-96 has left d
reduced(subAppKey, f, cx, resultState, d, subState, action) ==
    IF d.err THEN Throwing([cx EXCEPT !.h = d.h])
    ELSE assigned(keysOf[subAppKey], resultState, d.parentState,
                  namespaced(subAppKey, Factories[f].reducer,
                             [cx EXCEPT !.h = d.h], subState, action))

\* index.js:85-99 for the subState that index.js:81-84 chose: resultState is
\* a new object, the copy of state
refinedFrom(subAppKey, f, cx, st, subState, action) ==
    reduced(subAppKey, f, cx, Ref(Len(cx.h) + 1),
            descend(Append(cx.h, spread(cx.h, st)), Ref(Len(cx.h) + 1),
                    SubSeq(keysOf[subAppKey], 1, Len(keysOf[subAppKey]) - 1)),
            subState, action)

\* index.js:82-84
orInitialState(subState, initialState) ==
    IF subState = Undef THEN initialState ELSE subState

\* refined seeding with initialState whatever the tree holds at the key
refinedClobbering(subAppKey, f, cx, st, action) ==
    refinedFrom(subAppKey, f, cx, st, Factories[f].initialState, action)

\* index.js:82-99 for the subState that mapState of index.js:81 returned;
\* when mapState threw, so does the reducer
refinedOf(subAppKey, f, cx, st, subState, action) ==
    IF subState = TypeError THEN Throwing(cx)
    ELSE refinedFrom(subAppKey, f, cx, st,
                     orInitialState(subState, Factories[f].initialState), action)

\* index.js:80-100; f is the factory whose call built this reducer
refined(subAppKey, f, cx, st, action) ==
    refinedOf(subAppKey, f, cx, st, mapState(subAppKey, cx.h, st), action)

----------------------------------------------------------------------------
(* The store (redux createStore under transientEnhancer, enhancer.js:5) *)

\* the sentinel under a type that is an INCREMENT in the namespace "a"
initializeReducerInNamespace == [type |-> KeyA \o <<SLASH>> \o INCREMENT]

\* index.js:17-19
initializeReducer == [type |-> ACTION_INITIALIZE_REDUCER_TYPE]

RECURSIVE reduceReducers(_, _, _)
\* redux-transient's effective reducer: the root reducer, then every added
\* reducer in the order it was added.  An added reducer is a refinedReducer
\* (index.js:112), the closure of its key and its factory's arguments
reduceReducers(reducers, cx, action) ==
    IF reducers = <<>> \/ cx.err THEN cx
    ELSE reduceReducers(Tail(reducers),
             refined(Head(reducers).key, Head(reducers).factory, cx, cx.val, action),
             action)

\* the parent application's root reducer, state => state (README.md:127)
rootReducer(cx, st, action) == Returning(cx, st)

\* the store after the computation r of its reducer on the state st: when
\* the reducer throws, the store keeps its state
stored(st, r) ==
    [h |-> r.h, calls |-> r.calls, err |-> r.err,
     state |-> IF r.err THEN st ELSE r.val]

\* store.dispatch(action): the reducer runs on the current state
dispatch(reducers, h, st, action) ==
    stored(st, reduceReducers(reducers,
                   rootReducer([h |-> h, calls |-> <<>>, err |-> FALSE, val |-> st],
                               st, action),
                   action))

RECURSIVE dispatchAll(_, _, _)
\* store.dispatch of each of the actions in turn, from the store d left by the
\* dispatch before; an exception ends the sequence
dispatchAll(reducers, d, actions) ==
    IF actions = <<>> \/ d.err THEN d
    ELSE dispatchAll(reducers, dispatch(reducers, d.h, d.state, Head(actions)),
                     Tail(actions))

\* addReducer adding an entry on every dispatch
addReducerAgain(reducers, reducer) == Append(reducers, reducer)

\* store.dispatch(addReducer(reducer)), index.js:48: redux-transient keeps
\* one entry per reducer function (README.md:315-319: rendering one
\* ComponentApp in many places does not lengthen the chain of reducers)
addReducer(reducers, reducer) ==
    IF \E k \in 1..Len(reducers) : reducers[k] = reducer THEN reducers
    ELSE Append(reducers, reducer)

----------------------------------------------------------------------------
(* Garbage collection.  Objects nothing refers to any more are dropped and *)
(* the rest renumbered in the order a depth-first walk from the            *)
(* initialState object and the store's state meets them, so that a state   *)
(* of the model is the heap up to the naming of references.                *)

\* the property names of the model's objects, in the order the walk takes
PropOrder == <<VALUE, <<"z">>, <<"a">>, <<"b">>, <<"c">>, KeySlash, <<>>>>

refsOf(h, i) ==
    LET F[k \in 0..Len(PropOrder)] ==
            IF k = 0 THEN <<>>
            ELSE IF PropOrder[k] \in DOMAIN h[i] /\ isRef(h[i][PropOrder[k]])
                 THEN Append(F[k - 1], h[i][PropOrder[k]].v)
                 ELSE F[k - 1]
    IN  F[Len(PropOrder)]

RECURSIVE reach(_, _, _)
reach(h, stack, seen) ==
    IF stack = <<>> THEN seen
    ELSE IF \E k \in 1..Len(seen) : seen[k] = Head(stack)
         THEN reach(h, Tail(stack), seen)
         ELSE reach(h, refsOf(h, Head(stack)) \o Tail(stack), Append(seen, Head(stack)))

renamed(seen, x) ==
    IF isRef(x) THEN Ref(CHOOSE k \in 1..Len(seen) : seen[k] = x.v) ELSE x

\* the objects seen, renumbered by their place in seen
collected(h, st, seen) ==
    [h |-> [k \in 1..Len(seen) |->
               [p \in DOMAIN h[seen[k]] |-> renamed(seen, h[seen[k]][p])]],
     state |-> renamed(seen, st)]

collect(h, st) ==
    collected(h, st,
              reach(h, <<InitialStateObject.v>> \o (IF isRef(st) THEN <<st.v>> ELSE <<>>),
                    <<>>))

\* no counter in the heap exceeds MaxValue
valuesBounded(h) ==
    \A i \in DOMAIN h :
        VALUE \in DOMAIN h[i] /\ h[i][VALUE].t = "num" => h[i][VALUE].v <= MaxValue

----------------------------------------------------------------------------
(* The binding registry and the factory *)

\* the SubApp class subAppCreator returns (index.js:34-77): it closes over
\* the key and over the factory's component, refinedReducer and options; id
\* tells the classes built by different calls apart
SubApp(subAppKey, f, id) == [key |-> subAppKey, factory |-> f, id |-> id]

NoSubApp == [key |-> <<>>, factory |-> "none", id |-> 0]

\* createAppFactory binding the key again instead of throwing
createAppFactoryRebinding(m, f, subAppKey) ==
    LET subApp == SubApp(subAppKey, f, Cardinality(DOMAIN m) + 1)
    IN  IF subAppKey \in DOMAIN m /\ m[subAppKey].wrapped = Factories[f].wrapped
        THEN [res |-> "cached", subApp |-> m[subAppKey].subApp, mapping |-> m]
        ELSE [res |-> "created", subApp |-> subApp,
              mapping |-> [k \in DOMAIN m \cup {subAppKey} |->
                             IF k = subAppKey
                             THEN [wrapped |-> Factories[f].wrapped, subApp |-> subApp]
                             ELSE m[k]]]

\* createAppFactory building a new SubApp on every call that does not throw
createAppFactoryRebuilding(m, f, subAppKey) ==
    LET subApp == SubApp(subAppKey, f, Cardinality(DOMAIN m) + 1)
    IN  IF subAppKey \in DOMAIN m /\ m[subAppKey].wrapped # Factories[f].wrapped
        THEN [res |-> "threw", subApp |-> NoSubApp, mapping |-> m]
        ELSE [res |-> IF subAppKey \in DOMAIN m THEN "cached" ELSE "created",
              subApp |-> subApp,
              mapping |-> [k \in DOMAIN m \cup {subAppKey} |->
                             IF k = subAppKey
                             THEN [wrapped |-> Factories[f].wrapped, subApp |-> subApp]
                             ELSE m[k]]]

\* createAppFactory handing out the SubApp of the key with the reducer,
\* initialState and options of the later factory
createAppFactoryReconfiguring(m, f, subAppKey) ==
    IF subAppKey \in DOMAIN m /\ m[subAppKey].wrapped = Factories[f].wrapped
    THEN [res |-> "cached", subApp |-> [m[subAppKey].subApp EXCEPT !.factory = f],
          mapping |-> [m EXCEPT ![subAppKey].subApp.factory = f]]
    ELSE IF subAppKey \in DOMAIN m \/ subAppKey \in ObjectPrototypeNames
    THEN [res |-> "threw", subApp |-> NoSubApp, mapping |-> m]
    ELSE [res |-> "created", subApp |-> SubApp(subAppKey, f, Cardinality(DOMAIN m) + 1),
          mapping |-> [k \in DOMAIN m \cup {subAppKey} |->
                         IF k = subAppKey
                         THEN [wrapped |-> Factories[f].wrapped,
                               subApp |-> SubApp(subAppKey, f, Cardinality(DOMAIN m) + 1)]
                         ELSE m[k]]]

\* index.js:104-119, on the registry m: what the call returns or throws, and
\* the registry after it.  `subAppKey in mapping` (index.js:105) also holds
\* for a name mapping inherits; the function found there has no `wrapped`
createAppFactory(m, f, subAppKey) ==
    IF subAppKey \in DOMAIN m
    THEN IF m[subAppKey].wrapped = Factories[f].wrapped
         THEN [res |-> "cached", subApp |-> m[subAppKey].subApp, mapping |-> m]
         ELSE [res |-> "threw", subApp |-> NoSubApp, mapping |-> m]
    ELSE IF subAppKey \in ObjectPrototypeNames
    THEN [res |-> "threw", subApp |-> NoSubApp, mapping |-> m]
    ELSE LET subApp == SubApp(subAppKey, f, Cardinality(DOMAIN m) + 1)
         IN  [res |-> "created", subApp |-> subApp,
              mapping |-> [k \in DOMAIN m \cup {subAppKey} |->
                              IF k = subAppKey
                              THEN [wrapped |-> Factories[f].wrapped, subApp |-> subApp]
                              ELSE m[k]]]

\* redux-subspace's namespacedAction, the dispatch of the store that
\* getChildContext hands to the wrapped component (index.js:43):
\* `${namespace}/${action.type}`, the action as it is for an empty namespace
namespacedAction(subAppKey, action) ==
    IF subAppKey = <<>> THEN action
    ELSE [action EXCEPT !.type = subAppKey \o <<SLASH>> \o @]

\* A store handle: the namespaces of the subspaces laid around the root
\* store, the outermost first; none for the root store itself
RootStore == <<>>

\* redux-subspace's subspace(mapState(subAppKey), subAppKey)(store), index.js:43
subspace(subAppKey, store) == Append(store, subAppKey)

\* getStore returning the store of the context as it is
getStoreAsIs(contextStore) == contextStore

\* index.js:56-62: a subspace has a rootStore, the root store has none
getStore(contextStore) ==
    IF contextStore # RootStore THEN RootStore ELSE contextStore

\* index.js:41-45: the store the wrapped component finds in its context
getChildContext(subAppKey, contextStore) ==
    subspace(subAppKey, getStore(contextStore))

RECURSIVE namespacedBy(_, _)
\* the action that store.dispatch(action) hands to the root store: every
\* subspace tags it with its namespace, the innermost first
namespacedBy(store, action) ==
    IF store = RootStore THEN action
    ELSE namespacedBy(SubSeq(store, 1, Len(store) - 1),
                      namespacedAction(store[Len(store)], action))

RECURSIVE getState(_, _, _)
\* store.getState(): every subspace maps the state of the store it is laid
\* around
getState(store, h, st) ==
    IF store = RootStore THEN st
    ELSE getState(Tail(store), h, mapState(Head(store), h, st))

\* store.dispatch(addReducer(reducer)), index.js:48, on a store handle:
\* redux-transient takes the reducer from an action of its ADD_REDUCER type,
\* which an action tagged by a subspace no longer has
addedOn(store, reducers, reducer) ==
    IF store = RootStore THEN addReducer(reducers, reducer) ELSE reducers

\* runSaga handing the saga on whatever the middleware is
runSagaUnguarded(middleware) == TRUE

\* enhancer.js:9-15: whether runSaga hands the saga to the middleware
runSaga(middleware) == middleware # "undefined"

\* componentWillMount going on to index.js:50 without the dispatches of
\* index.js:48-49
componentWillMountWithoutDispatch(store, reducers, h, st) ==
    [h |-> h, calls |-> <<>>, err |-> FALSE, state |-> st]

\* index.js:47-49, with the reducers as the addReducer of line 48 leaves
\* them: the two dispatches of componentWillMount on the store of getStore()
componentWillMount(store, reducers, h, st) ==
    dispatchAll(reducers, [h |-> h, calls |-> <<>>, err |-> FALSE, state |-> st],
                <<namespacedBy(store, [type |-> ADD_REDUCER]),
                  namespacedBy(store, initializeReducer)>>)

\* the guard of index.js:50 without its second conjunct
sagaToRunEveryMount(subApp, sagaRun) == Factories[subApp.factory].saga

\* index.js:50: options.saga && !sagaRunForSubAppKeyMap[subAppKey]
sagaToRun(subApp, sagaRun) ==
    Factories[subApp.factory].saga /\ subApp.key \notin sagaRun

----------------------------------------------------------------------------
(* The state machine *)

\* Action types the parent application dispatches on the root store
RootTypes == {INCREMENT, ACTION_INITIALIZE_REDUCER_TYPE}

\* createStore(state => state, preloaded, enhancer): the preloaded states
\* {} (README.md:127) and { a: { value: 1 }, c: { z: 7 } }
PreloadedHeaps ==
    { <<[q \in {VALUE} |-> Num(0)], EmptyObject>>,
      <<[q \in {VALUE} |-> Num(0)],
        [q \in {<<"a">>, <<"c">>} |-> IF q = <<"a">> THEN Ref(3) ELSE Ref(4)],
        [q \in {VALUE} |-> Num(1)],
        [q \in {<<"z">>} |-> Num(7)]>> }

\* the most recent call: the operation, the key of a factory call (the empty
\* string otherwise), how it ended, and the factory of a factory call
Called(op, key, res) == [op |-> op, key |-> key, res |-> res, factory |-> "none"]

RECURSIVE sum(_, _)
sum(f, S) == IF S = {} THEN 0 ELSE LET x == CHOOSE y \in S : TRUE
                                   IN  f[x] + sum(f, S \ {x})

Init ==
    /\ heap \in PreloadedHeaps
    /\ state = Ref(2)
    /\ transientReducers = <<>>
    /\ mapping = [k \in {} |-> NoSubApp]
    /\ sagaRunForSubAppKeyMap = {}
    /\ sagaMiddleware \in {"undefined", "sagaMiddleware"}
    /\ sagaRuns = [k \in Keys |-> 0]
    /\ runSagaCalls = [k \in Keys |-> 0]
    /\ instances = [k \in Keys |-> 0]
    /\ appCalls \in ParentApps
    /\ last = Called("createStore", <<>>, "ok")

\* appFactory(subAppKey), index.js:104-119
CreateApp(f, subAppKey) ==
    LET r == createAppFactory(mapping, f, subAppKey)
    IN  /\ mapping' = r.mapping
        /\ last' = [Called("createAppFactory", subAppKey, r.res) EXCEPT !.factory = f]
        /\ UNCHANGED <<heap, state, transientReducers, sagaRunForSubAppKeyMap,
                       sagaMiddleware, sagaRuns, runSagaCalls, instances, appCalls>>

\* the stores a SubApp can find in its context: the root store, or the store
\* a mounted SubApp hands to what is rendered inside it
ContextStores ==
    {RootStore} \cup {getChildContext(k, RootStore) : k \in {q \in Keys : instances[q] > 0}}

\* React mounts an instance of the SubApp bound to subAppKey where the store
\* of the context is contextStore: componentWillMount, index.js:46-55.  A
\* store that is not the enhanced root store has no runSaga, and the call of
\* index.js:52 throws
Mount(subAppKey, contextStore) ==
    /\ subAppKey \in DOMAIN mapping
    /\ sum(instances, Keys) < MaxInstances
    /\ \E store \in {getStore(contextStore)} :
       \E reducers \in {addedOn(store, transientReducers, mapping[subAppKey].subApp)} :
       \E d \in {componentWillMount(store, reducers, heap, state)} :
       \E c \in {collect(d.h, d.state)} :
       \E saga \in {~d.err /\ store = RootStore
                        /\ sagaToRun(mapping[subAppKey].subApp, sagaRunForSubAppKeyMap)} :
       \E threw \in {d.err \/ ( /\ store # RootStore
                                 /\ sagaToRun(mapping[subAppKey].subApp,
                                              sagaRunForSubAppKeyMap) )} :
           /\ transientReducers' = reducers
           /\ heap' = c.h
           /\ state' = c.state
           /\ runSagaCalls' =
                 IF saga THEN [runSagaCalls EXCEPT ![subAppKey] = @ + 1] ELSE runSagaCalls
           /\ sagaRuns' =
                 IF saga /\ runSaga(sagaMiddleware)
                 THEN [sagaRuns EXCEPT ![subAppKey] = @ + 1] ELSE sagaRuns
           /\ sagaRunForSubAppKeyMap' =
                 IF saga THEN sagaRunForSubAppKeyMap \cup {subAppKey}
                 ELSE sagaRunForSubAppKeyMap
           /\ instances' =
                 IF threw THEN instances ELSE [instances EXCEPT ![subAppKey] = @ + 1]
           /\ last' = Called(IF contextStore = RootStore THEN "mount" ELSE "nestedMount",
                             <<>>, IF threw THEN "threw" ELSE "ok")
           /\ UNCHANGED <<mapping, sagaMiddleware, appCalls>>

\* React unmounts an instance: SubApp defines no componentWillUnmount
Unmount(subAppKey) ==
    /\ instances[subAppKey] > 0
    /\ instances' = [instances EXCEPT ![subAppKey] = @ - 1]
    /\ last' = Called("unmount", <<>>, "ok")
    /\ UNCHANGED <<heap, state, transientReducers, mapping, sagaRunForSubAppKeyMap,
                   sagaMiddleware, sagaRuns, runSagaCalls, appCalls>>

\* store.dispatch(action) on the root store
Dispatched(action, op) ==
    \E d \in {dispatch(transientReducers, heap, state, action)} :
    \E c \in {collect(d.h, d.state)} :
        /\ valuesBounded(c.h)
        /\ heap' = c.h
        /\ state' = c.state
        /\ last' = Called(op, <<>>, IF d.err THEN "threw" ELSE "ok")
        /\ UNCHANGED <<transientReducers, mapping, sagaRunForSubAppKeyMap,
                       sagaMiddleware, sagaRuns, runSagaCalls, instances, appCalls>>

\* the wrapped component of a mounted instance dispatches { type } on the
\* store its SubApp has put in its context (index.js:40-45), whatever store
\* the SubApp found in its own
DispatchFromSubApp(subAppKey, type) ==
    /\ instances[subAppKey] > 0
    /\ \E store \in {getChildContext(subAppKey, s) : s \in ContextStores} :
           Dispatched(namespacedBy(store, [type |-> type]), "subAppDispatch")

\* the parent application dispatches { type } on the root store
DispatchFromParent(type) ==
    Dispatched([type |-> type], "rootDispatch")

Next ==
    \/ \E c \in appCalls : CreateApp(c[1], c[2])
    \/ \E k \in Keys, s \in ContextStores : Mount(k, s)
    \/ \E k \in Keys : Unmount(k)
    \/ \E k \in Keys, t \in ComponentTypes : DispatchFromSubApp(k, t)
    \/ \E t \in RootTypes : DispatchFromParent(t)

Spec == Init /\ [][Next]_vars

----------------------------------------------------------------------------
(* Reading the sub-state: mapState (index.js:23-32) on the state trees a   *)
(* store or a subspace can hand to it                                      *)

\* what a property of a state tree holds: undefined, null, a number or the
\* inner object
RootValues == {Undef, Null, Num(1), Ref(3)}
InnerValues == {Undef, Null, Num(1)}

\* the objects with some of the names of S as own properties, holding values
\* of V
ObjectsOver(S, V) == UNION {[D -> V] : D \in SUBSET S}

\* the state trees: the initialState object, the root object and the inner
\* object
ReadTrees ==
    { <<[q \in {VALUE} |-> Num(0)], root, inner>> :
          root \in ObjectsOver({<<"a">>, <<"c">>}, RootValues),
          inner \in ObjectsOver({<<"a">>, <<"b">>}, InnerValues) }

\* the state mapState is applied to: the root object of a store's state, or
\* what the mapState of an enclosing subspace returned (index.js:43)
ReadStates == {Ref(2), Undef, Null}

InitRead ==
    /\ \E tree \in ReadTrees, st \in ReadStates :
       \E c \in {collect(tree, st)} :
           /\ heap = c.h
           /\ state = c.state
    /\ transientReducers = <<>>
    /\ mapping = [k \in {} |-> NoSubApp]
    /\ sagaRunForSubAppKeyMap = {}
    /\ sagaMiddleware = "undefined"
    /\ sagaRuns = [k \in Keys |-> 0]
    /\ runSagaCalls = [k \in Keys |-> 0]
    /\ instances = [k \in Keys |-> 0]
    /\ appCalls = {}
    /\ last = Called("createStore", <<>>, "ok")

\* mapState(subAppKey)(state), index.js:23-32
Read(subAppKey) ==
    /\ \E subState \in {mapState(subAppKey, heap, state)} :
           last' = Called("mapState", subAppKey,
                          IF subState = TypeError THEN "threw" ELSE "ok")
    /\ UNCHANGED <<heap, state, transientReducers, mapping, sagaRunForSubAppKeyMap,
                   sagaMiddleware, sagaRuns, runSagaCalls, instances, appCalls>>

NextRead == \E subAppKey \in Paths : Read(subAppKey)

SpecRead == InitRead /\ [][NextRead]_vars

----------------------------------------------------------------------------
(* Vocabulary of the properties *)

\* the refinedReducer of subAppKey has been added to the store
registered(subAppKey) ==
    \E k \in 1..Len(transientReducers) : transientReducers[k].key = subAppKey

\* neither key path is a prefix of the other
disjointPaths(keyA, keyB) ==
    /\ ~startsWith(split(keyA), split(keyB))
    /\ ~startsWith(split(keyB), split(keyA))

\* every object of heap h that value x reaches holds in h2 what it holds in h
unchangedBelow(h, h2, x) ==
    isRef(x) =>
        LET seen == reach(h, <<x.v>>, <<>>)
        IN  \A k \in 1..Len(seen) : h2[seen[k]] = h[seen[k]]

\* the actions the store may hand to the refinedReducer of subAppKey
ActionsFor(subAppKey) ==
    {initializeReducer, [type |-> ADD_REDUCER]}
        \cup {[type |-> t] : t \in ComponentTypes}
        \cup {namespacedAction(subAppKey, [type |-> t]) : t \in ComponentTypes}

\* a computation starting on heap h
Computation(h) == [h |-> h, calls |-> <<>>, err |-> FALSE, val |-> Undef]

\* no segment of the key is empty (and so the key is not empty)
validKey(subAppKey) ==
    \A k \in 1..Len(split(subAppKey)) : split(subAppKey)[k] # <<>>

----------------------------------------------------------------------------
(* C1 *)

\* C1 (isolation): for registered keys A # B with disjoint paths, an action a
\* component of A dispatches leaves the value at B's path the same reference,
\* leaves every object below it as it was, and B's slice reducer is not
\* called.
C1_Isolation ==
    \A keyA \in Keys, keyB \in Keys :
        ( /\ keyA # keyB
          /\ registered(keyA) /\ registered(keyB)
          /\ instances[keyA] > 0
          /\ disjointPaths(keyA, keyB) ) =>
        \A t \in ComponentTypes :
            LET d == dispatch(transientReducers, heap, state,
                              namespacedAction(keyA, [type |-> t]))
                before == mapState(keyB, heap, state)
            IN  /\ mapState(keyB, d.h, d.state) = before
                /\ unchangedBelow(heap, d.h, before)
                /\ \A k \in 1..Len(d.calls) : d.calls[k].key # keyB

----------------------------------------------------------------------------
(* C7 *)

RECURSIVE ancestorsFresh(_, _, _, _)
\* the objects of h on the path keys from x, the slice itself left out, all
\* have a reference above n
ancestorsFresh(h, x, keys, n) ==
    /\ isRef(x) /\ x.v > n
    /\ Len(keys) > 1 => ancestorsFresh(h, getProp(h, x, Head(keys)), Tail(keys), n)

\* C7 (immutability of writes): the refined reducer of a bound key, on the
\* store's state and any action, leaves every object of the heap as it was,
\* and every ancestor object on the path in the tree it returns is new.
C7_InputNotMutated ==
    \A subAppKey \in DOMAIN mapping :
        \A action \in ActionsFor(subAppKey) :
            LET r == refined(subAppKey, mapping[subAppKey].subApp.factory,
                             Computation(heap), state, action)
            IN  /\ \A i \in DOMAIN heap : r.h[i] = heap[i]
                /\ ancestorsFresh(r.h, r.val, split(subAppKey), Len(heap))

----------------------------------------------------------------------------
(* C6 *)

\* C6 (invalid key rejection): a factory call with a key that is empty or has
\* an empty segment throws, and no such key is ever bound or has a reducer
\* registered.
C6_InvalidKeyRejected ==
    /\ last.op = "createAppFactory" /\ ~validKey(last.key) => last.res = "threw"
    /\ \A subAppKey \in DOMAIN mapping : validKey(subAppKey)
    /\ \A k \in 1..Len(transientReducers) : validKey(transientReducers[k].key)

----------------------------------------------------------------------------
(* C2 *)

\* what componentWillMount of the SubApp bound to subAppKey computes in the
\* current state
mounting(subAppKey) ==
    componentWillMount(RootStore, addReducer(transientReducers, mapping[subAppKey].subApp),
                       heap, state)

RECURSIVE outsideSame(_, _, _, _, _)
\* along the path keys, the object x2 of heap h2 has the properties the
\* value x of heap h had and the next segment, and every property off the
\* path holds the same value, unchanged below
outsideSame(h, x, h2, x2, keys) ==
    keys # <<>> =>
        /\ isRef(x2)
        /\ LET old == spread(h, x)
               new == h2[x2.v]
           IN  /\ DOMAIN new = DOMAIN old \cup {Head(keys)}
               /\ \A p \in DOMAIN old \ {Head(keys)} :
                      new[p] = old[p] /\ unchangedBelow(h, h2, old[p])
               /\ outsideSame(h, getProp(h, x, Head(keys)), h2, new[Head(keys)],
                              Tail(keys))

\* C2 (seeding on first mount): when the tree holds no value at the path of a
\* bound key whose factory has an initial state I, then after the mount the
\* value at the path is I, I holds what it held, and every ancestor object on
\* the path has the keys it had plus the next segment, all other keys holding
\* what they held.
C2_SeededOnFirstMount ==
    \A subAppKey \in DOMAIN mapping :
        LET initialState == Factories[mapping[subAppKey].subApp.factory].initialState
            m == mounting(subAppKey)
        IN  ( /\ validKey(subAppKey)
              /\ initialState # Undef
              /\ mapState(subAppKey, heap, state) = Undef ) =>
                /\ ~m.err
                /\ mapState(subAppKey, m.h, m.state) = initialState
                /\ unchangedBelow(heap, m.h, initialState)
                /\ outsideSame(heap, state, m.h, m.state, split(subAppKey))

----------------------------------------------------------------------------
(* C3 *)

\* C3 (process-start dedupe): store.runSaga is called at most once for every
\* key; it has been called exactly once as soon as a SubApp with a saga has
\* been mounted for the key, however many instances were mounted, unmounted
\* and mounted again; the key is in sagaRunForSubAppKeyMap exactly when the
\* call has been made.
C3_SagaRunOnce ==
    \A subAppKey \in Keys :
        /\ runSagaCalls[subAppKey] <= 1
        /\ subAppKey \in sagaRunForSubAppKeyMap <=> runSagaCalls[subAppKey] = 1
        /\ ( /\ registered(subAppKey)
             /\ Factories[mapping[subAppKey].subApp.factory].saga )
               => runSagaCalls[subAppKey] = 1
        /\ runSagaCalls[subAppKey] = 1 => registered(subAppKey)

\* a second instance of a key with a saga has just been mounted
C3_Witness ==
    /\ last.op = "mount"
    /\ instances[KeyA] = 2
    /\ runSagaCalls[KeyA] = 1

----------------------------------------------------------------------------
(* C4 *)

\* C4 (key conflict): a call of a factory for a bound key with another
\* wrapped component throws and leaves mapping as it is; every binding in
\* mapping is the one the call that created it made: for its key, with the
\* wrapped component of its factory.
C4_KeyConflictThrows ==
    /\ \A subAppKey \in DOMAIN mapping : \A f \in FactoryIds :
           Factories[f].wrapped # mapping[subAppKey].wrapped =>
               /\ createAppFactory(mapping, f, subAppKey).res = "threw"
               /\ createAppFactory(mapping, f, subAppKey).mapping = mapping
    /\ \A subAppKey \in DOMAIN mapping :
           /\ mapping[subAppKey].subApp.key = subAppKey
           /\ mapping[subAppKey].wrapped =
                  Factories[mapping[subAppKey].subApp.factory].wrapped

\* a factory call for a key bound to another component has just thrown
C4_Witness ==
    /\ last.op = "createAppFactory" /\ last.res = "threw"
    /\ last.key \in DOMAIN mapping
    /\ mapping[last.key].wrapped = "Counter"

----------------------------------------------------------------------------
(* C5 *)

\* C5 (idempotent factory): a call of a factory for a bound key with the
\* wrapped component the key is bound to returns the SubApp stored by the
\* first call, builds none and leaves mapping as it is; the SubApps of
\* mapping are pairwise distinct.
C5_SameSubAppReturned ==
    /\ \A subAppKey \in DOMAIN mapping : \A f \in FactoryIds :
           Factories[f].wrapped = mapping[subAppKey].wrapped =>
               /\ createAppFactory(mapping, f, subAppKey).res = "cached"
               /\ createAppFactory(mapping, f, subAppKey).subApp =
                      mapping[subAppKey].subApp
               /\ createAppFactory(mapping, f, subAppKey).mapping = mapping
    /\ \A k1 \in DOMAIN mapping, k2 \in DOMAIN mapping :
           mapping[k1].subApp.id = mapping[k2].subApp.id => k1 = k2

\* a factory call for a key bound to the same component has just returned
C5_Witness ==
    /\ last.op = "createAppFactory" /\ last.res = "cached"
    /\ last.key \in DOMAIN mapping

----------------------------------------------------------------------------
(* C8 *)

\* C8 (tagged dispatch round trip): an action of type T dispatched by a
\* component of a mounted SubApp reaches the slice reducer of its key as an
\* action of type T with the sub-state at the key as state, and after the
\* dispatch the sub-state at the key is what that call returned.
C8_TaggedRoundTrip ==
    \A subAppKey \in Keys : instances[subAppKey] > 0 =>
        \A t \in ComponentTypes :
            LET d == dispatch(transientReducers, heap, state,
                              namespacedAction(subAppKey, [type |-> t]))
            IN  /\ ~d.err
                /\ \E k \in 1..Len(d.calls) :
                       d.calls[k] = [key |-> subAppKey, type |-> t,
                                     state |-> mapState(subAppKey, heap, state),
                                     returned |-> mapState(subAppKey, d.h, d.state)]

\* a component of the SubApp at "a", seeded with {value: 0} on the empty
\* tree, has just dispatched and the tree is {a: {value: 1}}
C8_Witness ==
    /\ last.op = "subAppDispatch" /\ last.res = "ok"
    /\ instances[KeyA] > 0
    /\ mapping[KeyA].subApp.factory = "counterApp"
    /\ DOMAIN heap[state.v] = {KeyA}
    /\ getProp(heap, mapState(KeyA, heap, state), VALUE) = Num(1)

----------------------------------------------------------------------------
(* C9 *)

\* the tree the store holds after the actions, from the current state, with
\* the refinedReducer of subAppKey among the reducers
treeAfter(subAppKey, actions) ==
    LET d == dispatchAll(addReducer(transientReducers, mapping[subAppKey].subApp),
                         [h |-> heap, calls |-> <<>>, err |-> FALSE, state |-> state],
                         actions)
    IN  [err |-> d.err, tree |-> collect(d.h, d.state)]

\* C9 (sentinel idempotence): with the refinedReducer of any bound key among
\* the reducers, the tree after two dispatches of the sentinel equals the
\* tree after one.
C9_SentinelIdempotent ==
    \A subAppKey \in DOMAIN mapping :
        treeAfter(subAppKey, <<initializeReducer, initializeReducer>>)
            = treeAfter(subAppKey, <<initializeReducer>>)

\* the sentinel has been dispatched on a tree with a seeded and incremented
\* sub-state, and a bound key is still to be seeded
C9_Witness ==
    /\ last.op = "rootDispatch"
    /\ registered(KeyCA) /\ ~registered(KeyCB) /\ KeyCB \in DOMAIN mapping
    /\ mapState(KeyCB, heap, state) = Undef
    /\ treeAfter(KeyCB, <<initializeReducer>>).tree.state # state
       \/ treeAfter(KeyCB, <<initializeReducer>>).tree.h # heap

----------------------------------------------------------------------------
(* C10 *)

\* C10 (no clobbering): when the tree holds a defined value at the path of a
\* bound key, then after the mount of its SubApp, and after a dispatch of the
\* sentinel with its refinedReducer among the reducers, the path holds the
\* same value, and every object below it holds what it held.
C10_NoClobbering ==
    \A subAppKey \in DOMAIN mapping :
        LET before == mapState(subAppKey, heap, state)
            m == mounting(subAppKey)
            d == dispatch(addReducer(transientReducers, mapping[subAppKey].subApp),
                          heap, state, initializeReducer)
        IN  before # Undef =>
                /\ ~m.err /\ ~d.err
                /\ mapState(subAppKey, m.h, m.state) = before
                /\ unchangedBelow(heap, m.h, before)
                /\ mapState(subAppKey, d.h, d.state) = before
                /\ unchangedBelow(heap, d.h, before)

\* the SubApp at "a", whose factory has the initial state {value: 0}, has
\* just been mounted on the preloaded tree and "a" still holds {value: 1}
C10_Witness ==
    /\ last.op = "mount" /\ last.res = "ok"
    /\ instances[KeyA] = 1
    /\ mapping[KeyA].subApp.factory = "counterApp"
    /\ getProp(heap, state, <<"c">>) # Undef
    /\ mapState(KeyA, heap, state) # InitialStateObject
    /\ getProp(heap, mapState(KeyA, heap, state), VALUE) = Num(1)

----------------------------------------------------------------------------
(* C11 *)

\* the value the refined reducer of subAppKey writes: what the call of the
\* slice reducer logged in r returned, the sub-state it was given when there
\* was no call
written(r, subState) ==
    IF r.calls = <<>> THEN subState ELSE r.calls[Len(r.calls)].returned

\* C11 (write/read round trip): for the store's tree T, every path P with no
\* empty segment, every factory and every action, the refined reducer of P
\* returns a tree in which reading P gives the value V it wrote, and reading
\* any path disjoint from P gives what reading it in T gave.
C11_WriteReadRoundTrip ==
    \A P \in Keys : validKey(P) =>
        \A f \in FactoryIds : \A action \in ActionsFor(P) :
            LET subState == orInitialState(mapState(P, heap, state),
                                           Factories[f].initialState)
                r == refinedFrom(P, f, Computation(heap), state, subState, action)
            IN  ~r.err =>
                    /\ mapState(P, r.h, r.val) = written(r, subState)
                    /\ \A Q \in Paths :
                           validKey(Q) /\ disjointPaths(P, Q) =>
                               mapState(Q, r.h, r.val) = mapState(Q, heap, state)

----------------------------------------------------------------------------
(* C12 *)

\* C12 (a missing sagaMiddleware is not fatal): a step in which store.runSaga
\* is called for a key while the enhancer has no sagaMiddleware starts no
\* saga, is a mount that completes without an exception, and leaves the
\* reducers and the tree exactly as the two dispatches of componentWillMount
\* left them.
C12_MissingRuntimeNonFatal ==
    [][ \A subAppKey \in Keys :
          ( /\ sagaMiddleware = "undefined"
            /\ runSagaCalls'[subAppKey] = runSagaCalls[subAppKey] + 1 ) =>
              /\ sagaRuns' = sagaRuns
              /\ last'.op \in {"mount", "nestedMount"} /\ last'.res = "ok"
              /\ instances'[subAppKey] = instances[subAppKey] + 1
              /\ transientReducers' =
                     addReducer(transientReducers, mapping[subAppKey].subApp)
              /\ [h |-> heap', state |-> state'] =
                     collect(mounting(subAppKey).h, mounting(subAppKey).state)
      ]_vars

\* a SubApp with a saga has just been mounted on a store without
\* sagaMiddleware, and a component of it has dispatched since
C12_Witness ==
    /\ sagaMiddleware = "undefined"
    /\ runSagaCalls[KeyA] = 1 /\ sagaRuns[KeyA] = 0
    /\ instances[KeyA] > 0
    /\ last.op = "subAppDispatch" /\ last.res = "ok"

----------------------------------------------------------------------------
(* C13 *)

----------------------------------------------------------------------------
(* C14 *)

----------------------------------------------------------------------------
(* C15 *)

\* C15 (sagaRunForSubAppKeyMap is truthful): a key is marked in
\* sagaRunForSubAppKeyMap only if its saga has been handed to
\* sagaMiddleware.run.
C15_MarkedOnlyIfRun ==
    \A subAppKey \in Keys :
        subAppKey \in sagaRunForSubAppKeyMap => sagaRuns[subAppKey] > 0

----------------------------------------------------------------------------
(* C16 *)

\* action types without a namespace that the parent application dispatches
\* on the root store
UntaggedTypes == {INCREMENT, <<"NOOP">>}

\* an untagged action dispatched on the root store reaches no slice reducer
\* and leaves the defined sub-state of every registered key as it is
untaggedNotDelegated ==
    \A t \in UntaggedTypes :
        LET d == dispatch(transientReducers, heap, state, [type |-> t])
        IN  /\ d.calls = <<>>
            /\ \A subAppKey \in Keys :
                   registered(subAppKey) /\ mapState(subAppKey, heap, state) # Undef =>
                       mapState(subAppKey, d.h, d.state) = mapState(subAppKey, heap, state)

\* an action dispatched by a component of a mounted SubApp reaches the slice
\* reducer of no other key
taggedNotDelegatedToOthers ==
    \A subAppKey \in Keys : instances[subAppKey] > 0 =>
        \A t \in ComponentTypes :
            LET d == dispatch(transientReducers, heap, state,
                              namespacedAction(subAppKey, [type |-> t]))
            IN  \A k \in 1..Len(d.calls) : d.calls[k].key = subAppKey

\* C16 (untagged actions are not delegated): while every registered key has
\* no empty segment, an action without a namespace dispatched on the root
\* store is passed to no slice reducer and changes no defined sub-state of a
\* registered key, and an action tagged for one key is passed to the slice
\* reducer of no other key.
C16_NotDelegated ==
    (\A k \in 1..Len(transientReducers) : validKey(transientReducers[k].key)) =>
        untaggedNotDelegated /\ taggedNotDelegatedToOthers

----------------------------------------------------------------------------
(* C17 *)

----------------------------------------------------------------------------
(* C18 *)

\* C18 (every unbound key can be bound): a factory call for a key with no
\* empty segment that mapping does not hold creates the SubApp and binds the
\* key to it; and once a SubApp with a saga is mounted on a store with a
\* sagaMiddleware, its saga has been run.
C18_UnboundKeyCanBeBound ==
    /\ \A subAppKey \in Keys : \A f \in FactoryIds :
           validKey(subAppKey) /\ subAppKey \notin DOMAIN mapping =>
               /\ createAppFactory(mapping, f, subAppKey).res = "created"
               /\ subAppKey \in DOMAIN createAppFactory(mapping, f, subAppKey).mapping
    /\ \A subAppKey \in DOMAIN mapping :
           ( /\ registered(subAppKey)
             /\ Factories[mapping[subAppKey].subApp.factory].saga
             /\ sagaMiddleware # "undefined" ) => sagaRuns[subAppKey] = 1

----------------------------------------------------------------------------
(* C19 *)

\* C19 (nested mounts resolve to the root store): whatever store a SubApp
\* finds in its context, the root store or the subspace of a mounted SubApp,
\* getStore gives the root store; the store it hands to its component reads
\* the sub-state at its key's path from the root of the tree and tags a
\* dispatched action with its key alone; and every mounted SubApp has its
\* reducer among the root store's reducers.
C19_NestedMountsUseRoot ==
    /\ \A contextStore \in ContextStores : getStore(contextStore) = RootStore
    /\ \A subAppKey \in DOMAIN mapping : \A contextStore \in ContextStores :
           /\ getState(getChildContext(subAppKey, contextStore), heap, state)
                  = mapState(subAppKey, heap, state)
           /\ \A t \in ComponentTypes :
                  namespacedBy(getChildContext(subAppKey, contextStore), [type |-> t])
                      = namespacedAction(subAppKey, [type |-> t])
    /\ \A subAppKey \in Keys : instances[subAppKey] > 0 => registered(subAppKey)

\* the SubApp of one key has just been mounted inside the mounted SubApp of
\* another key
C19_Witness ==
    /\ last.op = "nestedMount" /\ last.res = "ok"
    /\ instances[KeyCA] = 1 /\ instances[KeyCB] = 1
    /\ runSagaCalls[KeyCA] = 1 /\ runSagaCalls[KeyCB] = 1

----------------------------------------------------------------------------
(* C20 *)

\* C20 (a binding keeps its first configuration): the SubApp a key is bound
\* to has the reducer, initialState and options of the factory whose call
\* created the binding; a call for the key from any factory with the same
\* wrapped component returns that SubApp with that configuration and leaves
\* the binding as it is; and the reducer the store holds for a key is the one
\* of its binding.
C20_BindingKeepsFirstConfiguration ==
    /\ last.op = "createAppFactory" /\ last.res = "created" =>
           mapping[last.key].subApp.factory = last.factory
    /\ \A subAppKey \in DOMAIN mapping : \A f \in FactoryIds :
           Factories[f].wrapped = mapping[subAppKey].wrapped =>
               /\ createAppFactory(mapping, f, subAppKey).subApp.factory
                      = mapping[subAppKey].subApp.factory
               /\ createAppFactory(mapping, f, subAppKey).mapping[subAppKey]
                      = mapping[subAppKey]
    /\ \A k \in 1..Len(transientReducers) :
           /\ transientReducers[k] = mapping[transientReducers[k].key].subApp
           /\ \A j \in 1..Len(transientReducers) :
                  transientReducers[j].key = transientReducers[k].key => j = k

\* a factory with a saga and an initialState has just been called for a key
\* that a factory with the same component, another reducer, no initialState
\* and no saga bound first, and whose SubApp is mounted
C20_Witness ==
    /\ last.op = "createAppFactory" /\ last.res = "cached"
    /\ last.key = KeyA /\ last.factory = "counterApp"
    /\ mapping[KeyA].subApp.factory = "counterApp2"
    /\ instances[KeyA] > 0 /\ registered(KeyA)
    /\ runSagaCalls[KeyA] = 0
----------------------------------------------------------------------------
(* C21 *)

\* the values mapState meets before the last segment of the path: the state
\* it is given and what each segment but the last leads to
intermediates(subAppKey, h, st) ==
    {walk(h, st, SubSeq(keysOf[subAppKey], 1, j)) : j \in 0..(Len(keysOf[subAppKey]) - 1)}

\* C21 (read never throws): reading the sub-state at any key path of any
\* state tree returns a value without throwing, and the value is undefined
\* whenever an intermediate value on the path is undefined or null.
C21_ReadNeverThrows ==
    last.op = "mapState" =>
        /\ last.res = "ok"
        /\ intermediates(last.key, heap, state) \cap {Undef, Null} # {} =>
               mapState(last.key, heap, state) = Undef

\* the half of C21 that the code keeps: no intermediate value is null, and
\* the read returns a value, undefined when an intermediate is undefined
C21_ReadWithoutNull ==
    last.op = "mapState" /\ Null \notin intermediates(last.key, heap, state) =>
        /\ last.res = "ok"
        /\ Undef \in intermediates(last.key, heap, state) =>
               mapState(last.key, heap, state) = Undef

\* a read throws exactly when it meets null before the last segment
C21_ThrowsOnNull ==
    last.op = "mapState" =>
        (last.res = "threw" <=> Null \in intermediates(last.key, heap, state))
====
